---- MODULE Spec2Model ----
(***************************************************************************)
(* Packing of a 3d unit normal into one 32-bit word and back (pack.cpp).   *)
(*                                                                         *)
(* The program computes in IEEE-754 single precision.  A float is modelled *)
(* bit-exactly as a record [nan, neg, m, e] standing for (-1)^neg * m * 2^e *)
(* with m = 0 (a signed zero) or 2^23 <= m < 2^24.  Every operation rounds *)
(* to nearest, ties to even, as the hardware does, and each operation is   *)
(* rounded on its own (no fused multiply-add).  The magnitudes that        *)
(* occur stay far inside the normal range, so subnormals and infinities    *)
(* are not modelled.  A uint32_t is a record [hi, lo] of two 16-bit halves. *)
(***************************************************************************)
EXTENDS Integers, Sequences, FiniteSets, TLC

(***************************************************************************)
(* Integer helpers.                                                        *)
(***************************************************************************)
RECURSIVE BitLen(_)
BitLen(n) == IF n = 0 THEN 0 ELSE 1 + BitLen(n \div 2)

\* n / 2^k, any bit shifted out OR-ed into the lowest bit kept (sticky).
ShiftRightJam(n, k) ==
    IF k = 0 THEN n
    ELSE IF k >= 30 THEN (IF n = 0 THEN 0 ELSE 1)
    ELSE LET q == n \div (2^k)
         IN  IF n % (2^k) = 0 THEN q ELSE (q \div 2) * 2 + 1

(***************************************************************************)
(* float values                                                            *)
(***************************************************************************)
NaN == [nan |-> TRUE, neg |-> FALSE, m |-> 0, e |-> 0]

Zero(neg) == [nan |-> FALSE, neg |-> neg, m |-> 0, e |-> 0]

\* The float nearest to n * 2^e (n >= 0; when n has more than 25 bits its
\* lowest bit may be a sticky bit), ties to even.
RoundF(neg, n, e) ==
    IF n = 0 THEN Zero(neg)
    ELSE LET L == BitLen(n)
         IN  IF L <= 24
             THEN [nan |-> FALSE, neg |-> neg, m |-> n * 2^(24 - L), e |-> e - (24 - L)]
             ELSE LET sh   == L - 24
                      q    == n \div (2^sh)
                      r    == n % (2^sh)
                      half == 2^(sh - 1)
                      up   == r > half \/ (r = half /\ q % 2 = 1)
                      q1   == IF up THEN q + 1 ELSE q
                  IN  IF q1 = 2^24
                      THEN [nan |-> FALSE, neg |-> neg, m |-> 2^23, e |-> e + sh + 1]
                      ELSE [nan |-> FALSE, neg |-> neg, m |-> q1, e |-> e + sh]

\* A literal or an integer converted to float: float(k), exact below 2^24.
FromInt(k) == IF k < 0 THEN RoundF(TRUE, -k, 0) ELSE RoundF(FALSE, k, 0)

\* k / 2^j as a float (the dyadic literals 1.0f, 0.5f, ... and the inputs).
Dyadic(k, j) == IF k < 0 THEN RoundF(TRUE, -k, -j) ELSE RoundF(FALSE, k, -j)

FNeg(a) == IF a.nan THEN a ELSE [a EXCEPT !.neg = ~a.neg]

FAbs(a) == IF a.nan THEN a ELSE [a EXCEPT !.neg = FALSE]

\* a < b on floats (false when either is NaN; -0 = +0).
MagLess(a, b) ==
    IF a.m = 0 THEN b.m # 0
    ELSE IF b.m = 0 THEN FALSE
    ELSE a.e < b.e \/ (a.e = b.e /\ a.m < b.m)

FLess(a, b) ==
    /\ ~a.nan /\ ~b.nan
    /\ IF a.m = 0 /\ b.m = 0 THEN FALSE
       ELSE IF a.neg /\ ~b.neg THEN TRUE
       ELSE IF ~a.neg /\ b.neg THEN FALSE
       ELSE IF a.neg THEN MagLess(b, a)
       ELSE MagLess(a, b)

\* a + b, rounded once.  The operand of larger magnitude keeps three extra
\* low bits; the other is aligned to it with a sticky shift.
FAdd(a, b) ==
    IF a.nan \/ b.nan THEN NaN
    ELSE IF a.m = 0 /\ b.m = 0 THEN Zero(a.neg /\ b.neg)
    ELSE IF a.m = 0 THEN b
    ELSE IF b.m = 0 THEN a
    ELSE LET big == IF MagLess(a, b) THEN b ELSE a
             sml == IF MagLess(a, b) THEN a ELSE b
             A   == big.m * 8
             B   == ShiftRightJam(sml.m * 8, big.e - sml.e)
         IN  IF big.neg = sml.neg
             THEN RoundF(big.neg, A + B, big.e - 3)
             ELSE IF A = B THEN Zero(FALSE)
             ELSE RoundF(big.neg, A - B, big.e - 3)

FSub(a, b) == FAdd(a, FNeg(b))

\* a * b, rounded once.  The 48-bit product of the mantissas is formed from
\* 12-bit halves; its low 21 bits are folded into a sticky bit.
FMul(a, b) ==
    IF a.nan \/ b.nan THEN NaN
    ELSE IF a.m = 0 \/ b.m = 0 THEN Zero(a.neg # b.neg)
    ELSE LET a1  == a.m \div 4096
             a0  == a.m % 4096
             b1  == b.m \div 4096
             b0  == b.m % 4096
             mid == a1 * b0 + a0 * b1
             low == (mid % 4096) * 4096 + a0 * b0
             hi  == a1 * b1 + (mid \div 4096) + (low \div (2^24))
             lo  == low % (2^24)
             st  == IF lo % (2^21) = 0 THEN 0 ELSE 1
             n   == hi * 16 + (lo \div (2^21)) * 2 + st
         IN  RoundF(a.neg # b.neg, n, a.e + b.e + 20)

\* n further quotient bits of r / d by restoring division: <<quotient, rest>>.
RECURSIVE DivBits(_, _, _, _)
DivBits(r, d, n, q) ==
    IF n = 0 THEN <<q, r>>
    ELSE IF 2 * r >= d THEN DivBits(2 * r - d, d, n - 1, 2 * q + 1)
    ELSE DivBits(2 * r, d, n - 1, 2 * q)

\* a / b, rounded once (b is never zero where the program divides).
FDiv(a, b) ==
    IF a.nan \/ b.nan \/ b.m = 0 THEN NaN
    ELSE IF a.m = 0 THEN Zero(a.neg # b.neg)
    ELSE LET qr == DivBits(a.m % b.m, b.m, 26, a.m \div b.m)
             st == IF qr[2] = 0 THEN 0 ELSE 1
         IN  RoundF(a.neg # b.neg, 2 * qr[1] + st, a.e - b.e - 27)

\* n further bits of a square root by the digit-by-digit method; pairs of
\* radicand bits are taken from v (from bit pair i down) and are zero below it.
RECURSIVE SqrtBits(_, _, _, _, _)
SqrtBits(v, i, n, q, r) ==
    IF n = 0 THEN <<q, r>>
    ELSE LET pair == IF i >= 0 THEN (v \div (4^i)) % 4 ELSE 0
             r4   == 4 * r + pair
             t    == 4 * q + 1
         IN  IF r4 >= t THEN SqrtBits(v, i - 1, n - 1, 2 * q + 1, r4 - t)
             ELSE SqrtBits(v, i - 1, n - 1, 2 * q, r4)

\* sqrt(a), rounded once; NaN for a negative operand.
FSqrt(a) ==
    IF a.nan THEN NaN
    ELSE IF a.m = 0 THEN a
    ELSE IF a.neg THEN NaN
    ELSE LET odd == a.e % 2 = 1
             v   == IF odd THEN 2 * a.m ELSE a.m
             ev  == IF odd THEN a.e - 1 ELSE a.e
             qr  == SqrtBits(v, 12, 27, 0, 0)
             st  == IF qr[2] = 0 THEN 0 ELSE 1
         IN  RoundF(FALSE, 2 * qr[1] + st, (ev \div 2) - 15)

(***************************************************************************)
(* uint32_t values as two 16-bit halves                                    *)
(***************************************************************************)
U32(hi, lo) == [hi |-> hi, lo |-> lo]

RECURSIVE Or16(_, _, _)
Or16(a, b, n) ==
    IF n = 0 THEN 0
    ELSE (IF a % 2 = 1 \/ b % 2 = 1 THEN 1 ELSE 0) + 2 * Or16(a \div 2, b \div 2, n - 1)

RECURSIVE And16(_, _, _)
And16(a, b, n) ==
    IF n = 0 THEN 0
    ELSE (IF a % 2 = 1 /\ b % 2 = 1 THEN 1 ELSE 0) + 2 * And16(a \div 2, b \div 2, n - 1)

\* a | b
BitOr(a, b) == U32(Or16(a.hi, b.hi, 16), Or16(a.lo, b.lo, 16))

\* a & b
BitAnd(a, b) == U32(And16(a.hi, b.hi, 16), And16(a.lo, b.lo, 16))

\* a << k for 0 <= k <= 16; the bits shifted past bit 31 are lost.
ShiftLeft(a, k) ==
    IF k = 16 THEN U32(a.lo, 0)
    ELSE U32((a.hi * 2^k + (a.lo * 2^k) \div 65536) % 65536, (a.lo * 2^k) % 65536)

\* a >> k for 0 <= k <= 16
ShiftRight(a, k) ==
    IF k = 16 THEN U32(0, a.hi)
    ELSE U32(a.hi \div 2^k, ((a.hi % 2^k) * 65536 + a.lo) \div 2^k)

\* 2^32 - a (mod 2^32)
Negate32(a) ==
    IF a.lo = 0 THEN U32((65536 - a.hi) % 65536, 0)
    ELSE U32(65535 - a.hi, 65536 - a.lo)

\* The low 32 bits of the integer part of m * 2^e.
Trunc32(m, e) ==
    IF e >= 32 \/ e <= -24 THEN U32(0, 0)
    ELSE IF e >= 16 THEN U32((m % 2^(32 - e)) * 2^(e - 16), 0)
    ELSE IF e >= 0 THEN U32((m \div 2^(16 - e)) % 65536, (m % 2^(16 - e)) * 2^e)
    ELSE LET v == m \div 2^(-e) IN U32(v \div 65536, v % 65536)

\* The two ways a build resolves the undefined float-to-unsigned conversion
\* of a value outside [0, 2^32): "wrap" converts through a 64-bit signed
\* integer and keeps the low word, "sat" saturates to the nearest bound.
Builds == {"wrap", "sat"}

\* (uint32_t) x: truncation toward zero.  The result is defined when the
\* truncated value lies in [0, 2^32); otherwise it is what the build gives.
ToU32(a, build) ==
    IF a.nan THEN U32(0, 0)
    ELSE LET t == Trunc32(a.m, a.e)
         IN  IF a.e > 8
             THEN (IF build = "sat"
                   THEN (IF a.neg THEN U32(0, 0) ELSE U32(65535, 65535))
                   ELSE (IF a.neg THEN Negate32(t) ELSE t))
             ELSE IF a.neg /\ t # U32(0, 0)
             THEN (IF build = "sat" THEN U32(0, 0) ELSE Negate32(t))
             ELSE t

(***************************************************************************)
(* pack.cpp                                                                *)
(***************************************************************************)
One == Dyadic(1, 0)

Half == Dyadic(1, 1)

\* 0.005f: the float nearest to 5/1000
Epsilon == FDiv(FromInt(5), FromInt(1000))

U15Max == 32767

U16Max == 65535

float_eq(x, y) == FLess(FAbs(FSub(x, y)), Epsilon)

map_ufnorm(x) == FMul(FAdd(x, One), Half)

\* x * 2.0 - 1.0f is evaluated in double, where it is exact for a float x
\* of the magnitudes that occur, and rounded once on return.
map_sfnorm(x) == FSub([x EXCEPT !.e = IF x.m = 0 THEN 0 ELSE x.e + 1], One)

\* truncation toward zero in place of rounding
FRound_trunc(a) ==
    IF a.nan \/ a.m = 0 \/ a.e >= 0 THEN a
    ELSE IF a.e <= -24 THEN Zero(a.neg)
    ELSE RoundF(a.neg, a.m \div 2^(-a.e), 0)

\* glm::round: to the nearest integer, halves away from zero.
FRound(a) ==
    IF a.nan \/ a.m = 0 \/ a.e >= 0 THEN a
    ELSE IF a.e < -24 THEN Zero(a.neg)
    ELSE RoundF(a.neg, (a.m + 2^(-a.e - 1)) \div 2^(-a.e), 0)

map_ftou15(x, build) ==
    BitAnd(ToU32(FRound(FMul(x, FromInt(U15Max))), build), U32(0, 65535))

\* a scale of 2^16 in place of 2^16 - 1
map_ftou16_pow2(x, build) == ToU32(FRound(FMul(x, FromInt(U16Max + 1))), build)

map_ftou16(x, build) == ToU32(FRound(FMul(x, FromInt(U16Max))), build)

Vec(x, y, z) == [x |-> x, y |-> y, z |-> z]

\* the x field shifted by 15 in place of 16
pack_shift15(n, build) ==
    LET ux == ToU32(FRound(FMul(map_ufnorm(n.x), FromInt(U16Max))), build)
        uy == BitAnd(ToU32(FRound(FMul(map_ufnorm(n.y), FromInt(U15Max))), build), U32(0, 65535))
        ua == IF FLess(n.z, Zero(FALSE)) THEN U32(0, 1) ELSE U32(0, 0)
    IN  BitOr(BitOr(ShiftLeft(ux, 15), ShiftLeft(uy, 1)), ua)

\* the y field left unshifted, over bit 0
pack_yunshifted(n, build) ==
    LET ux == ToU32(FRound(FMul(map_ufnorm(n.x), FromInt(U16Max))), build)
        uy == BitAnd(ToU32(FRound(FMul(map_ufnorm(n.y), FromInt(U15Max))), build), U32(0, 65535))
        ua == IF FLess(n.z, Zero(FALSE)) THEN U32(0, 1) ELSE U32(0, 0)
    IN  BitOr(BitOr(ShiftLeft(ux, 16), uy), ua)

\* the sign flag set for z <= 0 in place of z < 0
pack_signle(n, build) ==
    LET ux == ToU32(FRound(FMul(map_ufnorm(n.x), FromInt(U16Max))), build)
        uy == BitAnd(ToU32(FRound(FMul(map_ufnorm(n.y), FromInt(U15Max))), build), U32(0, 65535))
        ua == IF FLess(Zero(FALSE), n.z) THEN U32(0, 0) ELSE U32(0, 1)
    IN  BitOr(BitOr(ShiftLeft(ux, 16), ShiftLeft(uy, 1)), ua)

pack(n, build) ==
    LET ufx == map_ufnorm(n.x)
        ufy == map_ufnorm(n.y)
        ux  == map_ftou16(ufx, build)
        uy  == map_ftou15(ufy, build)
        ua  == IF FLess(n.z, Zero(FALSE)) THEN U32(0, 1) ELSE U32(0, 0)
    IN  BitOr(BitOr(ShiftLeft(ux, 16), ShiftLeft(uy, 1)), ua)

\* fz without the sign of bit 0
unpack_nosign(p) ==
    LET x  == ShiftRight(p, 16)
        y  == ShiftRight(BitAnd(p, U32(0, 65535)), 1)
        fx == map_sfnorm(FDiv(FromInt(x.lo), FromInt(U16Max)))
        fy == map_sfnorm(FDiv(FromInt(y.lo), FromInt(U15Max)))
        fz == FSqrt(FSub(One, FAdd(FMul(fx, fx), FMul(fy, fy))))
    IN  Vec(fx, fy, fz)

\* the codes divided by 2^16 and 2^15 in place of 2^16 - 1 and 2^15 - 1
unpack_pow2(p) ==
    LET x  == ShiftRight(p, 16)
        y  == ShiftRight(BitAnd(p, U32(0, 65535)), 1)
        a  == BitAnd(p, U32(0, 1))
        fx == map_sfnorm(FDiv(FromInt(x.lo), FromInt(U16Max + 1)))
        fy == map_sfnorm(FDiv(FromInt(y.lo), FromInt(U15Max + 1)))
        fa == IF a = U32(0, 1) THEN FNeg(One) ELSE One
        fz == FMul(FSqrt(FSub(One, FAdd(FMul(fx, fx), FMul(fy, fy)))), fa)
    IN  Vec(fx, fy, fz)

unpack(p) ==
    LET x  == ShiftRight(p, 16)
        y  == ShiftRight(BitAnd(p, U32(0, 65535)), 1)
        a  == BitAnd(p, U32(0, 1))
        fx == map_sfnorm(FDiv(FromInt(x.lo), FromInt(U16Max)))
        fy == map_sfnorm(FDiv(FromInt(y.lo), FromInt(U15Max)))
        fa == IF a = U32(0, 1) THEN FNeg(One) ELSE One
        fz == FMul(FSqrt(FSub(One, FAdd(FMul(fx, fx), FMul(fy, fy)))), fa)
    IN  Vec(fx, fy, fz)

vector_equals(v1, v2) ==
    float_eq(v1.x, v2.x) /\ float_eq(v1.y, v2.y) /\ float_eq(v1.z, v2.z)

\* glm::normalize(v) = v * inversesqrt(dot(v, v)) on a vector of integers
normalize(a, b, c) ==
    LET x   == FromInt(a)
        y   == FromInt(b)
        z   == FromInt(c)
        dot == FAdd(FAdd(FMul(x, x), FMul(y, y)), FMul(z, z))
        inv == FDiv(One, FSqrt(dot))
    IN  Vec(FMul(x, inv), FMul(y, inv), FMul(z, inv))

(***************************************************************************)
(* Exact arithmetic for stating the properties: natural numbers of any     *)
(* size as little-endian sequences of 12-bit limbs (no leading zero limb), *)
(* and exact dyadic rationals [neg, mag, e] = (-1)^neg * mag * 2^e.        *)
(***************************************************************************)
Limb == 2^12

RECURSIVE BigOf(_)
BigOf(n) == IF n = 0 THEN << >> ELSE <<n % Limb>> \o BigOf(n \div Limb)

RECURSIVE BigTrim(_)
BigTrim(a) ==
    IF a = << >> THEN a
    ELSE IF a[Len(a)] = 0 THEN BigTrim(SubSeq(a, 1, Len(a) - 1))
    ELSE a

RECURSIVE BigAddC(_, _, _)
BigAddC(a, b, c) ==
    IF a = << >> /\ b = << >> THEN (IF c = 0 THEN << >> ELSE <<c>>)
    ELSE LET x == IF a = << >> THEN 0 ELSE Head(a)
             y == IF b = << >> THEN 0 ELSE Head(b)
             t == x + y + c
         IN  <<t % Limb>> \o BigAddC(IF a = << >> THEN a ELSE Tail(a),
                                     IF b = << >> THEN b ELSE Tail(b), t \div Limb)

BigAdd(a, b) == BigAddC(a, b, 0)

\* a - b - c for a >= b + c, before trimming
RECURSIVE BigSubB(_, _, _)
BigSubB(a, b, c) ==
    IF a = << >> THEN << >>
    ELSE LET y == IF b = << >> THEN 0 ELSE Head(b)
             t == Head(a) - y - c
         IN  <<t % Limb>> \o BigSubB(Tail(a), IF b = << >> THEN b ELSE Tail(b),
                                     IF t < 0 THEN 1 ELSE 0)

BigSub(a, b) == BigTrim(BigSubB(a, b, 0))

\* -1, 0, 1 as a < b, a = b, a > b
RECURSIVE BigCmpFrom(_, _, _)
BigCmpFrom(a, b, i) ==
    IF i = 0 THEN 0
    ELSE IF a[i] < b[i] THEN -1
    ELSE IF a[i] > b[i] THEN 1
    ELSE BigCmpFrom(a, b, i - 1)

BigCmp(a, b) ==
    IF Len(a) < Len(b) THEN -1
    ELSE IF Len(a) > Len(b) THEN 1
    ELSE BigCmpFrom(a, b, Len(a))

RECURSIVE BigMulLimb(_, _, _)
BigMulLimb(a, k, c) ==
    IF a = << >> THEN (IF c = 0 THEN << >> ELSE <<c>>)
    ELSE LET t == Head(a) * k + c
         IN  <<t % Limb>> \o BigMulLimb(Tail(a), k, t \div Limb)

RECURSIVE BigMul(_, _)
BigMul(a, b) ==
    IF a = << >> \/ b = << >> THEN << >>
    ELSE BigTrim(BigAdd(BigMulLimb(a, Head(b), 0), <<0>> \o BigMul(a, Tail(b))))

\* a * 2^k
RECURSIVE BigShl(_, _)
BigShl(a, k) ==
    IF a = << >> THEN a
    ELSE IF k >= 12 THEN <<0>> \o BigShl(a, k - 12)
    ELSE BigMulLimb(a, 2^k, 0)

Dy(neg, mag, e) == [neg |-> neg, mag |-> mag, e |-> e]

\* an integer, a power of two, the value of a float (not NaN)
DInt(k) == IF k < 0 THEN Dy(TRUE, BigOf(-k), 0) ELSE Dy(FALSE, BigOf(k), 0)

DPow2(k) == Dy(FALSE, <<1>>, k)

DOf(f) == Dy(f.neg, BigOf(f.m), f.e)

DNeg(a) == Dy(~a.neg, a.mag, a.e)

DAbs(a) == Dy(FALSE, a.mag, a.e)

DMul(a, b) == Dy(a.neg # b.neg, BigMul(a.mag, b.mag), a.e + b.e)

DAdd(a, b) ==
    LET e == IF a.e < b.e THEN a.e ELSE b.e
        x == BigShl(a.mag, a.e - e)
        y == BigShl(b.mag, b.e - e)
        c == BigCmp(x, y)
    IN  IF a.neg = b.neg THEN Dy(a.neg, BigAdd(x, y), e)
        ELSE IF c = 0 THEN Dy(FALSE, << >>, e)
        ELSE IF c > 0 THEN Dy(a.neg, BigSub(x, y), e)
        ELSE Dy(b.neg, BigSub(y, x), e)

DSub(a, b) == DAdd(a, DNeg(b))

\* the sign of a: -1, 0, 1
DSign(a) == IF a.mag = << >> THEN 0 ELSE IF a.neg THEN -1 ELSE 1

DLeq(a, b) == DSign(DSub(a, b)) <= 0

DLess(a, b) == DSign(DSub(a, b)) < 0

DEq(a, b) == DSign(DSub(a, b)) = 0

(***************************************************************************)
(* Bounds of the model.                                                    *)
(***************************************************************************)
\* main's test vectors are normalize(a, b, c) for integers of this size.
MaxCoord == 4

\* calls of test() that main makes in one run of the model
MaxTests == 2

\* pack's raw inputs: the grid k / 2^GridBits over [-1, 1], the powers of
\* two down to 2^-MaxShift, and the values 1 + 2^-j just outside the range.
GridBits == 3

MaxShift == 9

\* the scalar inputs of the integer mappers: k / 2^MapBits, k = 0 .. 2^MapBits + MapOver
MapBits == 10

MapOver == 2

\* unpack's input words: x fields within EdgeQ of 0 and of 65535 and the two
\* middle codes; y fields within EdgeQ of 0 and of 32767 and the Window codes
\* below the middle.
EdgeQ == 6

Window == 320

(***************************************************************************)
(* The state: the build, and the locals of the call in progress.           *)
(***************************************************************************)
VARIABLES pc, build, x, q15, q16, n, p, u, p2, ret, err, tests

vars == <<pc, build, x, q15, q16, n, p, u, p2, ret, err, tests>>

NoFloat == Zero(FALSE)

NoVec == Vec(NoFloat, NoFloat, NoFloat)

NoWord == U32(0, 0)

Idle ==
    /\ x = NoFloat /\ q15 = NoWord /\ q16 = NoWord
    /\ n = NoVec /\ p = NoWord /\ u = NoVec /\ p2 = NoWord
    /\ ret = 0 /\ err = 0 /\ tests = 0

(***************************************************************************)
(* main and test: the round trip of normalized vectors.                    *)
(***************************************************************************)
Coords == (0 - MaxCoord) .. MaxCoord

Init == pc = "main" /\ build \in Builds /\ Idle

\* err += test(glm::normalize(glm::vec3{a, b, c}))
TestCall ==
    /\ pc = "main" /\ tests < MaxTests
    /\ \E a \in Coords, b \in Coords, c \in Coords :
          /\ <<a, b, c>> # <<0, 0, 0>>
          /\ n' = normalize(a, b, c)
    /\ pc' = "pack"
    /\ UNCHANGED <<build, x, q15, q16, p, u, p2, ret, err, tests>>

TestPack ==
    /\ pc = "pack"
    /\ p' = pack(n, build)
    /\ pc' = "unpack"
    /\ UNCHANGED <<build, x, q15, q16, n, u, p2, ret, err, tests>>

TestUnpack ==
    /\ pc = "unpack"
    /\ u' = unpack(p)
    /\ pc' = "compare"
    /\ UNCHANGED <<build, x, q15, q16, n, p, p2, ret, err, tests>>

TestCompare ==
    /\ pc = "compare"
    /\ ret' = IF vector_equals(n, u) THEN 0 ELSE 1
    /\ pc' = "return"
    /\ UNCHANGED <<build, x, q15, q16, n, p, u, p2, err, tests>>

TestReturn ==
    /\ pc = "return"
    /\ err' = err + ret
    /\ tests' = tests + 1
    /\ n' = NoVec /\ p' = NoWord /\ u' = NoVec /\ ret' = 0
    /\ pc' = "main"
    /\ UNCHANGED <<build, x, q15, q16, p2>>

Next == TestCall \/ TestPack \/ TestUnpack \/ TestCompare \/ TestReturn

Spec == Init /\ [][Next]_vars

(***************************************************************************)
(* pack on raw vectors, then unpack of the word.                           *)
(***************************************************************************)
Scalars ==
    {Dyadic(k, GridBits) : k \in (0 - 2^GridBits) .. 2^GridBits}
      \cup {Dyadic(s, j) : s \in {-1, 1}, j \in (GridBits + 1) .. MaxShift}
      \cup {Dyadic(s * (2^j + 1), j) : s \in {-1, 1}, j \in {GridBits, MaxShift}}

ZValues == {Dyadic(-1, 1), Zero(TRUE), Zero(FALSE), Dyadic(1, 1)}

InitPack ==
    /\ pc = "p_start" /\ build \in Builds
    /\ x = NoFloat /\ q15 = NoWord /\ q16 = NoWord
    /\ n \in {Vec(a, b, c) : a \in Scalars, b \in Scalars, c \in ZValues}
    /\ p = NoWord /\ u = NoVec /\ p2 = NoWord
    /\ ret = 0 /\ err = 0 /\ tests = 0

Pack ==
    /\ pc = "p_start"
    /\ p' = pack(n, build)
    /\ pc' = "p_packed"
    /\ UNCHANGED <<build, x, q15, q16, n, u, p2, ret, err, tests>>

Unpack ==
    /\ pc = "p_packed"
    /\ u' = unpack(p)
    /\ pc' = "p_done"
    /\ UNCHANGED <<build, x, q15, q16, n, p, p2, ret, err, tests>>

NextPack == Pack \/ Unpack

SpecPack == InitPack /\ [][NextPack]_vars

(***************************************************************************)
(* unpack on raw words, then pack of the vector.                           *)
(***************************************************************************)
QxSet == (0 .. EdgeQ) \cup ((U16Max - EdgeQ) .. U16Max) \cup {U15Max, U15Max + 1}

QySet ==
    (0 .. EdgeQ) \cup ((U15Max - EdgeQ) .. U15Max)
      \cup (((U15Max + 1) \div 2 - Window) .. ((U15Max + 1) \div 2))

InitWord ==
    /\ pc = "w_start" /\ build \in Builds
    /\ x = NoFloat /\ q15 = NoWord /\ q16 = NoWord
    /\ n = NoVec
    /\ p \in {U32(qx, 2 * qy + a) : qx \in QxSet, qy \in QySet, a \in {0, 1}}
    /\ u = NoVec /\ p2 = NoWord
    /\ ret = 0 /\ err = 0 /\ tests = 0

UnpackWord ==
    /\ pc = "w_start"
    /\ u' = unpack(p)
    /\ pc' = "w_unpacked"
    /\ UNCHANGED <<build, x, q15, q16, n, p, p2, ret, err, tests>>

Repack ==
    /\ pc = "w_unpacked"
    /\ p2' = pack(u, build)
    /\ pc' = "w_done"
    /\ UNCHANGED <<build, x, q15, q16, n, p, u, ret, err, tests>>

NextWord == UnpackWord \/ Repack

SpecWord == InitWord /\ [][NextWord]_vars

(***************************************************************************)
(* the integer mappers on scalars                                          *)
(***************************************************************************)
InitMap ==
    /\ pc = "m_start" /\ build \in Builds
    /\ x \in {Dyadic(k, MapBits) : k \in 0 .. (2^MapBits + MapOver)}
    /\ q15 = NoWord /\ q16 = NoWord
    /\ n = NoVec /\ p = NoWord /\ u = NoVec /\ p2 = NoWord
    /\ ret = 0 /\ err = 0 /\ tests = 0

Quantize15 ==
    /\ pc = "m_start"
    /\ q15' = map_ftou15(x, build)
    /\ pc' = "m_q15"
    /\ UNCHANGED <<build, x, q16, n, p, u, p2, ret, err, tests>>

Quantize16 ==
    /\ pc = "m_q15"
    /\ q16' = map_ftou16(x, build)
    /\ pc' = "m_done"
    /\ UNCHANGED <<build, x, q15, n, p, u, p2, ret, err, tests>>

NextMap == Quantize15 \/ Quantize16

SpecMap == InitMap /\ [][NextMap]_vars

(***************************************************************************)
(* Properties.                                                             *)
(***************************************************************************)
\* |f| <= 1
InUnit(f) == ~f.nan /\ (f.m = 0 \/ f.e < -23 \/ (f.e = -23 /\ f.m = 2^23))

\* f < 0
IsNeg(f) == ~f.nan /\ f.neg /\ f.m # 0

IsNumber(v) == ~v.x.nan /\ ~v.y.nan /\ ~v.z.nan

DSq(f) == DMul(DOf(f), DOf(f))

\* x^2 + y^2 + z^2 is 1 up to the rounding of a float normalization
IsUnit(v) ==
    /\ IsNumber(v)
    /\ DLeq(DAbs(DSub(DAdd(DAdd(DSq(v.x), DSq(v.y)), DSq(v.z)), DInt(1))), DPow2(-21))

Packed == pc \in {"p_packed", "p_done"}

Unpacked == pc \in {"w_unpacked", "w_done"}

\* C1: every unit vector survives pack and unpack within the tolerance of
\* float_eq in each component: test() returns 0.
C1_RoundTrip == (pc = "return" /\ IsUnit(n)) => ret = 0

\* C2: unpack returns a vector without a NaN component for every word.
C2_NoNaN == Unpacked => IsNumber(u)

\* C3: for x and y in [-1, 1] the word holds floatToU16(toUnsigned01(x)) in
\* bits 31..16, floatToU15(toUnsigned01(y)) in bits 15..1 and the sign flag in
\* bit 0, and unpack's extraction returns these three values.
C3_WireLayout ==
    (Packed /\ InUnit(n.x) /\ InUnit(n.y)) =>
        LET ux == map_ftou16(map_ufnorm(n.x), build)
            uy == map_ftou15(map_ufnorm(n.y), build)
            ua == IF IsNeg(n.z) THEN 1 ELSE 0
        IN  /\ ux = U32(0, p.hi)
            /\ uy = U32(0, p.lo \div 2)
            /\ ua = p.lo % 2
            /\ ShiftRight(p, 16) = ux
            /\ ShiftRight(BitAnd(p, U32(0, 65535)), 1) = uy
            /\ BitAnd(p, U32(0, 1)) = U32(0, ua)

C3_Witness ==
    /\ pc = "p_packed" /\ n.x = One /\ n.y = FNeg(Half) /\ IsNeg(n.z)
    /\ p = U32(65535, 16385)

\* C4: bit 0 of the word is 1 exactly when z < 0, and negating a nonzero z
\* changes bit 0 and no other bit.
C4_SignOnly ==
    Packed =>
        LET q == pack(Vec(n.x, n.y, FNeg(n.z)), build)
        IN  /\ (p.lo % 2 = 1) <=> IsNeg(n.z)
            /\ n.z.m # 0 => /\ q.hi = p.hi
                            /\ q.lo \div 2 = p.lo \div 2
                            /\ q.lo % 2 # p.lo % 2

C4_Witness ==
    /\ pc = "p_packed" /\ IsNeg(n.z) /\ p.lo % 2 = 1
    /\ pack(Vec(n.x, n.y, FNeg(n.z)), build) = U32(p.hi, p.lo - 1)

\* C5: floatToU15(0) = 0, floatToU15(1) = 32767, floatToU16(0) = 0 and
\* floatToU16(1) = 65535.
C5_Endpoints ==
    pc = "m_done" =>
        /\ x = Zero(FALSE) => (q15 = U32(0, 0) /\ q16 = U32(0, 0))
        /\ x = One => (q15 = U32(0, 32767) /\ q16 = U32(0, 65535))

C5_Witness == pc = "m_done" /\ x = One /\ q15 = U32(0, 32767) /\ q16 = U32(0, 65535)

\* C6: for every input to pack (here: those at least -1, whose conversion
\* to unsigned is defined) the 15-bit code is at most 32767 and the
\* 16-bit code at most 65535, so the y field stays within bits 15..1 and the
\* x field within bits 31..16.
C6_Saturation ==
    (Packed /\ ~FLess(n.x, FNeg(One)) /\ ~FLess(n.y, FNeg(One))) =>
        LET ux == map_ftou16(map_ufnorm(n.x), build)
            uy == map_ftou15(map_ufnorm(n.y), build)
        IN  /\ ux.hi = 0
            /\ uy.hi = 0 /\ uy.lo <= 32767
            /\ ShiftLeft(uy, 1).hi = 0 /\ ShiftLeft(uy, 1).lo % 2 = 0
            /\ ShiftLeft(ux, 16).lo = 0

WordInt(w) == w.hi * 65536 + w.lo

\* q is the integer nearest to v >= 0, a half rounded up
IsNearest(q, v) ==
    /\ DLeq(DInt(2 * q - 1), DMul(v, DInt(2)))
    /\ DLess(DMul(v, DInt(2)), DInt(2 * q + 1))

InZeroOne(f) == InUnit(f) /\ ~IsNeg(f)

\* C7 as claimed: for x in [0, 1], floatToU16(x) is the integer nearest to
\* x * 65535 and floatToU15(x) the integer nearest to x * 32767, halves away
\* from zero.
C7_Nearest ==
    (pc = "m_done" /\ InZeroOne(x)) =>
        /\ IsNearest(WordInt(q16), DMul(DOf(x), DInt(65535)))
        /\ IsNearest(WordInt(q15), DMul(DOf(x), DInt(32767)))

\* C7 as amended: for x in [0, 1], floatToU16(x) is the integer nearest (halves
\* away from zero) to the float product x * 65535, which is within 2^-9 of the
\* real product; floatToU15(x) likewise with 32767 and 2^-10; 0.5 maps to 32768
\* and 16384.
C7_NearestOfProduct ==
    (pc = "m_done" /\ InZeroOne(x)) =>
        LET t16 == DOf(FMul(x, FromInt(65535)))
            t15 == DOf(FMul(x, FromInt(32767)))
        IN  /\ IsNearest(WordInt(q16), t16)
            /\ DLeq(DAbs(DSub(t16, DMul(DOf(x), DInt(65535)))), DPow2(-9))
            /\ IsNearest(WordInt(q15), t15)
            /\ DLeq(DAbs(DSub(t15, DMul(DOf(x), DInt(32767)))), DPow2(-10))
            /\ x = Half => (q16 = U32(0, 32768) /\ q15 = U32(0, 16384))

C7_Witness ==
    /\ pc = "m_done" /\ x = Dyadic(513, 10)
    /\ ~IsNearest(WordInt(q16), DMul(DOf(x), DInt(65535)))
    /\ ~IsNearest(WordInt(q15), DMul(DOf(x), DInt(32767)))

DSqSum(v) == DAdd(DSq(v.x), DSq(v.y))

NonNeg(f) == ~f.nan /\ (f.m = 0 \/ ~f.neg)

NonPos(f) == ~f.nan /\ (f.m = 0 \/ f.neg)

\* |s * f - (2 q - s)| <= s * tol: f is within tol of 2 q / s - 1
Decoded(f, q, s, tol) ==
    DLeq(DAbs(DSub(DMul(DOf(f), DInt(s)), DInt(2 * q - s))), DMul(DInt(s), tol))

\* C8 as claimed: when the decoded fx^2 + fy^2 <= 1, fx = 2 (p >> 16) / 65535 - 1
\* and fy = 2 ((p & 0xFFFF) >> 1) / 32767 - 1, both in [-1, 1],
\* fz^2 = 1 - (fx^2 + fy^2), and fz <= 0 or fz >= 0 as bit 0 is 1 or 0.
C8_Exact ==
    (Unpacked /\ DLeq(DSqSum(u), DInt(1))) =>
        /\ Decoded(u.x, p.hi, 65535, DInt(0))
        /\ Decoded(u.y, p.lo \div 2, 32767, DInt(0))
        /\ InUnit(u.x) /\ InUnit(u.y)
        /\ ~u.z.nan /\ DEq(DSq(u.z), DSub(DInt(1), DSqSum(u)))
        /\ IF p.lo % 2 = 1 THEN NonPos(u.z) ELSE NonNeg(u.z)

\* C8 as amended: when the decoded fx^2 + fy^2 <= 1, fx and fy are within 2^-24
\* of 2 q / 65535 - 1 and 2 q / 32767 - 1 and lie in [-1, 1], fz^2 is within
\* 2^-21 of 1 - (fx^2 + fy^2), and fz <= 0 or fz >= 0 as bit 0 is 1 or 0.
C8_Rounded ==
    (Unpacked /\ DLeq(DSqSum(u), DInt(1))) =>
        /\ Decoded(u.x, p.hi, 65535, DPow2(-24))
        /\ Decoded(u.y, p.lo \div 2, 32767, DPow2(-24))
        /\ InUnit(u.x) /\ InUnit(u.y)
        /\ ~u.z.nan
        /\ DLeq(DAbs(DSub(DSq(u.z), DSub(DInt(1), DSqSum(u)))), DPow2(-21))
        /\ IF p.lo % 2 = 1 THEN NonPos(u.z) ELSE NonNeg(u.z)

C8_Witness ==
    /\ pc = "w_unpacked" /\ DLeq(DSqSum(u), DInt(1))
    /\ p.lo % 2 = 1 /\ IsNeg(u.z)
    /\ ~Decoded(u.x, p.hi, 65535, DInt(0))
    /\ ~DEq(DSq(u.z), DSub(DInt(1), DSqSum(u)))

\* |a - b| <= 1 / s + tol
Within(a, b, s, tol) ==
    DLeq(DMul(DAbs(DSub(DOf(a), DOf(b))), DInt(s)), DAdd(DInt(1), DMul(DInt(s), tol)))

\* C9 as claimed: for x and y in [-1, 1] and any z, the decoded fx is within
\* 1/65535 of x and fy within 1/32767 of y, and float_eq accepts both.
C9_Accuracy ==
    (pc = "p_done" /\ InUnit(n.x) /\ InUnit(n.y)) =>
        /\ Within(u.x, n.x, 65535, DInt(0))
        /\ Within(u.y, n.y, 32767, DInt(0))
        /\ float_eq(u.x, n.x) /\ float_eq(u.y, n.y)

\* C9 as amended: for x and y in [-1, 1] and any z, the decoded fx is within
\* 1/65535 + 2^-22 of x and fy within 1/32767 + 2^-22 of y, and float_eq
\* accepts both.
C9_AccuracyRounded ==
    (pc = "p_done" /\ InUnit(n.x) /\ InUnit(n.y)) =>
        /\ Within(u.x, n.x, 65535, DPow2(-22))
        /\ Within(u.y, n.y, 32767, DPow2(-22))
        /\ float_eq(u.x, n.x) /\ float_eq(u.y, n.y)

C9_Witness ==
    /\ pc = "p_done" /\ n.x = Dyadic(1, 8) /\ n.y = Dyadic(1, 9)
    /\ ~Within(u.x, n.x, 65535, DInt(0))
    /\ ~Within(u.y, n.y, 32767, DInt(0))

\* C10 as claimed: when the decoded fx^2 + fy^2 < 1, pack(unpack(p)) = p.
C10_FixedPoint ==
    (pc = "w_done" /\ DLess(DSqSum(u), DInt(1))) => p2 = p

\* C10 as amended: when unpack computes a nonzero fz (the float
\* 1 - (fx*fx + fy*fy) is positive), pack(unpack(p)) = p; the x and y fields
\* are reproduced for every word.
C10_FixedPointNonzero ==
    pc = "w_done" =>
        /\ p2.hi = p.hi /\ p2.lo \div 2 = p.lo \div 2
        /\ (~u.z.nan /\ u.z.m # 0) => p2 = p

C10_Witness ==
    /\ pc = "w_done" /\ p.lo % 2 = 1 /\ IsNeg(u.z) /\ p2 = p
    /\ p.hi = 6
====
